---- MODULE Spec2Model ----
(***************************************************************************)
(* Model of the runv VM factory glue:                                      *)
(*   factory/template/template.go  (template.New, NewFromExisted, Config,  *)
(*                                  GetBaseVm, CloseFactory)               *)
(*   containerd/containerd.go      (ContainerdCommand.Action, daemon,      *)
(*                                  namespaceShare, startServer)           *)
(* Packages the two files call but that are not part of the sources at     *)
(* hand (template, factory/direct, factory/single, factory, supervisor)    *)
(* are modelled from the design document.                                  *)
(***************************************************************************)
EXTENDS Integers, FiniteSets, Sequences, TLC

\* ---------------------------------------------------------------- bounds
NumCalls == 2      \* concurrent callers of template.New
MaxPre == 1        \* pre-existing template-vm-* entries under templateRoot
NumSpare == 1      \* identifiers RandStr can yield beyond every entry in use
NumReqs == 2       \* concurrent container-start requests calling GetBaseVm
MaxClose == 2      \* CloseFactory calls a client makes
MaxSignals == 1    \* signals waiting in the daemon's channel at a time
MaxQueue == 2      \* events waiting in namespaceShare's channel at a time

Procs == 1..NumCalls
Reqs == 1..NumReqs
\* pod.RandStr(10, "alpha"): the identifier space always exceeds the directory
Names == 1..(MaxPre + NumCalls + NumSpare)
NoName == 0        \* the zero value of `var vmName string`

\* (cpu, mem, kernel, initrd) tuples handed to template.New
ArgSet ==
  { [cpu |-> 1, mem |-> 128, kernel |-> "vmlinuz", initrd |-> "initrd.img"],
    [cpu |-> 2, mem |-> 256, kernel |-> "bzImage", initrd |-> "rootfs.img"] }
NoArgs == [cpu |-> 0, mem |-> 0, kernel |-> "", initrd |-> ""]

NilFactory == [kind |-> "nil"]
NoVm == [id |-> 0, how |-> "none", kernel |-> "", initrd |-> ""]
NoResult == [vm |-> NoVm, err |-> "nil", clones |-> 0, boots |-> 0]
NilConfig == [StatePath |-> NoName, Driver |-> "", Cpu |-> 0, Memory |-> 0,
              Kernel |-> "", Initrd |-> ""]

VARIABLES
  entries,     \* names that exist under templateRoot (what os.Stat sees)
  rootFault,   \* os.Stat under templateRoot fails with an error other than ENOENT
  templates,   \* paths at which a template has been created
  pc,          \* per New call: "idle", "loop", "create", "done"
  args,        \* per New call: its (cpu, mem, kernel, initrd)
  vmName,      \* per New call: local vmName
  s,           \* per New call: local s returned by CreateTemplateVM
  err,         \* per New call: local err returned by CreateTemplateVM
  handed,      \* per New call: the path passed to CreateTemplateVM
  overtaken,   \* per New call: a template appeared at vmName after its check
  ret,         \* per New call: the Factory returned
  f,           \* the Factory a client holds (`var f factory.Factory`)
  mu,          \* holder of the Single factory's gate, 0 when free
  rpc,         \* per request: "idle", "clone", "boot", "done"
  rres,        \* per request: what GetBaseVm returned
  priorFail,   \* per request: an earlier GetBaseVm had failed when it was issued
  cfgLog,      \* values Config() returned, with the count of VMs handed out then
  closeCalls,  \* CloseFactory calls made on f
  crashed,     \* the process panicked
  dpc,         \* position of the daemon process, "off" when none runs
  flags,       \* the command line: --driver, --kernel, --initrd, --template
  descFile,    \* what <template>/config.json held when it was read
  driver,      \* Action's local driver
  kernel,      \* Action's local kernel
  initrd,      \* Action's local initrd
  template,    \* Action's local template
  tconfig,     \* Action's local tconfig
  HDriver,     \* hypervisor.HDriver
  sv,          \* the Supervisor has been constructed
  server,      \* the gRPC server: "none", "serving", "stopped"
  sigs,        \* the channel s of daemon()
  exitCode,    \* the status the process ended with, once dpc = "exited"
  solo,        \* context.Bool("solo-namespaced")
  cstate,      \* per container: "none", "running", "exited" (its init process)
  events,      \* the channel returned by sv.Events.Events(time.Time{})
  containerCount, \* namespaceShare's local containerCount
  kills,       \* how often namespaceShare called syscall.Kill(0, SIGQUIT)
  cdir         \* containerdDir: whether it exists, and the namespace links in it

newVars == <<entries, rootFault, templates, pc, args, vmName, s, err, handed,
             overtaken, ret>>
facVars == <<f, mu, rpc, rres, priorFail, cfgLog, closeCalls, crashed>>
soloVars == <<solo, cstate, events, containerCount, kills, cdir>>
dmnVars == <<dpc, flags, descFile, driver, kernel, initrd, template, tconfig,
             HDriver, sv, server, sigs, exitCode, soloVars>>
vars == <<newVars, facVars, dmnVars>>

\* ------------------------------------------------ collaborators of New
\* template.CreateTemplateVM(statePath, vmName, cpu, mem, kernel, initrd, ...)
CreateTemplateVM(path, a) ==
  [StatePath |-> path, Driver |-> "kvm", Cpu |-> a.cpu, Memory |-> a.mem,
   Kernel |-> a.kernel, Initrd |-> a.initrd]

\* direct.New(cpu, mem, kernel, initrd)
DirectNew(c, m, k, i) ==
  [kind |-> "direct", cpu |-> c, mem |-> m, kernel |-> k, initrd |-> i]

\* &templateFactory{s: s}
TemplateFactory(cfg) == [kind |-> "template", s |-> cfg]

\* a check that breaks on any error of os.Stat (err != nil)
StatErrNotNil(n) == rootFault \/ n \notin entries

\* os.Stat(templateRoot + "/" + vmName) followed by os.IsNotExist(err)
StatIsNotExist(n) == ~rootFault /\ n \notin entries

\* --------------------------------------------------------- template.New
\* entry of New(templateRoot, cpu, mem, kernel, initrd)
CallNew(p) ==
  /\ pc[p] = "idle"
  /\ \E a \in ArgSet : args' = [args EXCEPT ![p] = a]
  /\ pc' = [pc EXCEPT ![p] = "loop"]
  /\ UNCHANGED <<entries, rootFault, templates, vmName, s, err, handed,
                 overtaken, ret, facVars, dmnVars>>

\* one iteration of the for loop with RandStr yielding n
LoopIterWith(p, n) ==
  /\ pc[p] = "loop"
  /\ vmName' = [vmName EXCEPT ![p] = n]
  /\ IF StatIsNotExist(n)
       THEN /\ pc' = [pc EXCEPT ![p] = "create"]
            /\ overtaken' = [overtaken EXCEPT ![p] = FALSE]
       ELSE UNCHANGED <<pc, overtaken>>
  /\ UNCHANGED <<entries, rootFault, templates, args, s, err, handed, ret,
                 facVars, dmnVars>>

LoopIter(p) == \E n \in Names : LoopIterWith(p, n)

\* a New that gives up when the template cannot be created
NewResultNilOnError(cfg, e, a) ==
  IF e # "nil" THEN NilFactory ELSE TemplateFactory(cfg)

\* what New returns once CreateTemplateVM has returned (cfg, e)
NewResult(cfg, e, a) ==
  IF e # "nil" THEN DirectNew(a.cpu, a.mem, a.kernel, a.initrd)
               ELSE TemplateFactory(cfg)

\* CreateTemplateVM and the return of New; a failed creation may or may not
\* leave the directory behind
\* a call that hands kernel and initrd to CreateTemplateVM the wrong way round
CreateCallSwapped(n, a) ==
  CreateTemplateVM(n, [a EXCEPT !.kernel = a.initrd, !.initrd = a.kernel])

\* template.CreateTemplateVM(templateRoot+"/"+vmName, vmName, cpu, mem, kernel,
\* initrd, ...) as New calls it
CreateCall(n, a) == CreateTemplateVM(n, a)

CreateAndReturn(p) ==
  /\ pc[p] = "create"
  /\ handed' = [handed EXCEPT ![p] = vmName[p]]
  /\ \E ok \in BOOLEAN, left \in BOOLEAN :
       LET cfg == IF ok THEN CreateCall(vmName[p], args[p]) ELSE NilConfig
           e == IF ok THEN "nil" ELSE "create failed"
       IN /\ s' = [s EXCEPT ![p] = cfg]
          /\ err' = [err EXCEPT ![p] = e]
          /\ entries' = IF ok \/ left THEN entries \cup {vmName[p]} ELSE entries
          /\ templates' = IF ok THEN templates \cup {vmName[p]} ELSE templates
          /\ overtaken' = [q \in Procs |->
                IF ok /\ q # p /\ pc[q] = "create" /\ vmName[q] = vmName[p]
                  THEN TRUE ELSE overtaken[q]]
          /\ ret' = [ret EXCEPT ![p] = NewResult(cfg, e, args[p])]
  /\ pc' = [pc EXCEPT ![p] = "done"]
  /\ UNCHANGED <<rootFault, args, vmName, facVars, dmnVars>>

\* templateRoot before any call: its pre-existing entries are templates
InitRoot ==
  /\ \E m \in 0..MaxPre : entries = 1..m
  /\ rootFault \in BOOLEAN
  /\ templates = entries

InitCalls ==
  /\ pc = [p \in Procs |-> "idle"]
  /\ args = [p \in Procs |-> NoArgs]
  /\ vmName = [p \in Procs |-> NoName]
  /\ s = [p \in Procs |-> NilConfig]
  /\ err = [p \in Procs |-> "nil"]
  /\ handed = [p \in Procs |-> NoName]
  /\ overtaken = [p \in Procs |-> FALSE]
  /\ ret = [p \in Procs |-> NilFactory]

InitFacPart ==
  /\ f = NilFactory
  /\ mu = 0
  /\ rpc = [k \in Reqs |-> "idle"]
  /\ rres = [k \in Reqs |-> NoResult]
  /\ priorFail = [k \in Reqs |-> FALSE]
  /\ cfgLog = {}
  /\ closeCalls = 0
  /\ crashed = FALSE

NoFlags == [driver |-> "", kernel |-> "", initrd |-> "", template |-> ""]
Unread == [kind |-> "unread"]

InitDmnPart ==
  /\ descFile = Unread
  /\ driver = "" /\ kernel = "" /\ initrd = "" /\ template = ""
  /\ tconfig = NilConfig
  /\ HDriver = ""
  /\ sv = FALSE
  /\ server = "none"
  /\ sigs = <<>>
  /\ exitCode = 0
  /\ cstate = [k \in Reqs |-> "none"]
  /\ events = <<>>
  /\ containerCount = 0
  /\ kills = 0
  /\ cdir = [exists |-> TRUE, links |-> {}]

InitNew ==
  /\ InitRoot /\ InitCalls /\ InitFacPart /\ InitDmnPart
  /\ flags = NoFlags
  /\ solo = FALSE
  /\ dpc = "off"

NextNew ==
  \/ \E p \in Procs : CallNew(p)
  \/ \E p \in Procs : LoopIter(p)
  \/ \E p \in Procs : CreateAndReturn(p)

SpecNew == InitNew /\ [][NextNew]_vars

\* the scheduler runs every call; RandStr yields every identifier again and again
FairNew ==
  \A p \in Procs :
    /\ WF_vars(CallNew(p))
    /\ WF_vars(CreateAndReturn(p))
    /\ \A n \in Names : SF_vars(LoopIterWith(p, n))

LiveSpecNew == SpecNew /\ FairNew

\* ------------------------------------------- the template Factory in use
\* Template VM Configs a persisted descriptor can hold: valid ones and stale ones
ExistedConfigs ==
  { [StatePath |-> n, Driver |-> "kvm", Cpu |-> 1, Memory |-> 128,
     Kernel |-> "vmlinuz", Initrd |-> "initrd.img"] : n \in 1..(MaxPre + 1) }

\* a NewFromExisted that checks the template and, when it is gone, builds a
\* Direct factory in its place
NewFromExistedChecked(cfg) ==
  IF cfg.StatePath \in templates
    THEN TemplateFactory(cfg)
    ELSE DirectNew(cfg.Cpu, cfg.Memory, cfg.Kernel, cfg.Initrd)

\* NewFromExisted(s)
NewFromExisted(cfg) == TemplateFactory(cfg)

\* singlefactory.New(delegate)
SingleNew(fac) == [kind |-> "single", inner |-> fac]

\* the strategy that serves GetBaseVm behind a Single wrapper, if any
Delegate(fac) == IF fac.kind = "single" THEN fac.inner ELSE fac

\* (*TemplateVmConfig).BootConfigFromTemplate()
BootConfigFromTemplate(cfg) ==
  [CPU |-> cfg.Cpu, Memory |-> cfg.Memory, Kernel |-> cfg.Kernel,
   Initrd |-> cfg.Initrd, BootFromTemplate |-> TRUE, StatePath |-> cfg.StatePath]

\* (*TemplateVmConfig).NewVmFromTemplate(""): a clone, or the driver's error;
\* a template that is no longer on the backing store cannot be cloned
NewVmFromTemplate(cfg, id, ok) ==
  IF ok /\ cfg.StatePath \in templates
    THEN [vm |-> [id |-> id, how |-> "clone", kernel |-> cfg.Kernel,
                  initrd |-> cfg.Initrd], err |-> "nil"]
    ELSE [vm |-> NoVm, err |-> "clone failed"]

\* (t *templateFactory) Config()
TemplateConfig(t) == BootConfigFromTemplate(t.s)

\* a GetBaseVm that writes into the shared Template VM Config
TemplateGetBaseVmWritesConfig(t, id, ok) ==
  LET r == NewVmFromTemplate(t.s, id, ok)
  IN [vm |-> r.vm, err |-> r.err, clones |-> 1, boots |-> 0,
      t |-> IF r.err = "nil" THEN TemplateFactory([t.s EXCEPT !.Memory = 0]) ELSE t]

\* a GetBaseVm that cold-boots when the clone fails
TemplateGetBaseVmFallsBack(t, id, ok) ==
  LET r == NewVmFromTemplate(t.s, id, ok)
  IN IF r.err = "nil"
       THEN [vm |-> r.vm, err |-> r.err, clones |-> 1, boots |-> 0, t |-> t]
       ELSE [vm |-> [id |-> id, how |-> "boot", kernel |-> t.s.Kernel,
                     initrd |-> t.s.Initrd],
             err |-> "nil", clones |-> 1, boots |-> 1, t |-> t]

\* a GetBaseVm that turns the Factory into a Direct one when a clone fails
TemplateGetBaseVmDegrades(t, id, ok) ==
  LET r == NewVmFromTemplate(t.s, id, ok)
  IN [vm |-> r.vm, err |-> r.err, clones |-> 1, boots |-> 0,
      t |-> IF r.err = "nil" THEN t
            ELSE DirectNew(t.s.Cpu, t.s.Memory, t.s.Kernel, t.s.Initrd)]

\* (t *templateFactory) GetBaseVm(): what it returns, how many clones and cold
\* boots it ran, and the receiver afterwards
TemplateGetBaseVm(t, id, ok) ==
  LET r == NewVmFromTemplate(t.s, id, ok)
  IN [vm |-> r.vm, err |-> r.err, clones |-> 1, boots |-> 0, t |-> t]

\* direct factory: Config() and GetBaseVm()
DirectConfig(d) ==
  [CPU |-> d.cpu, Memory |-> d.mem, Kernel |-> d.kernel, Initrd |-> d.initrd,
   BootFromTemplate |-> FALSE, StatePath |-> NoName]

DirectGetBaseVm(d, id, ok) ==
  [vm |-> IF ok THEN [id |-> id, how |-> "boot", kernel |-> d.kernel,
                      initrd |-> d.initrd] ELSE NoVm,
   err |-> IF ok THEN "nil" ELSE "boot failed", clones |-> 0, boots |-> 1,
   t |-> d]

\* Factory.Config() through the interface
FactoryConfig(fac) ==
  IF Delegate(fac).kind = "template" THEN TemplateConfig(Delegate(fac))
                                     ELSE DirectConfig(Delegate(fac))

\* Factory.GetBaseVm() through the interface, once the delegate is entered
FactoryGetBaseVm(fac, id, ok) ==
  IF Delegate(fac).kind = "template" THEN TemplateGetBaseVm(Delegate(fac), id, ok)
                                     ELSE DirectGetBaseVm(Delegate(fac), id, ok)

\* the Factory after its delegate became t
WithDelegate(fac, t) == IF fac.kind = "single" THEN SingleNew(t) ELSE t

HandedOut == { k \in Reqs : rpc[k] = "done" /\ rres[k].err = "nil" }

\* a client keeps the Factory that New returned to call p
AdoptNew(p) ==
  /\ dpc = "off" /\ f = NilFactory
  /\ pc[p] = "done"
  /\ f' = ret[p]
  /\ UNCHANGED <<newVars, mu, rpc, rres, priorFail, cfgLog, closeCalls, crashed, dmnVars>>

\* a client attaches to a persisted Template VM Config
AdoptExisted ==
  /\ dpc = "off" /\ f = NilFactory
  /\ \A p \in Procs : pc[p] = "idle"
  /\ \E cfg \in ExistedConfigs : f' = NewFromExisted(cfg)
  /\ UNCHANGED <<newVars, mu, rpc, rres, priorFail, cfgLog, closeCalls, crashed, dmnVars>>

\* where a caller is once it is inside the delegate's GetBaseVm
InDelegate(fac) == IF Delegate(fac).kind = "template" THEN "clone" ELSE "boot"

\* a caller enters GetBaseVm; behind a Single wrapper it first waits at the gate
GetBaseVmBegin(k) ==
  /\ f # NilFactory /\ dpc # "exited" /\ ~crashed
  /\ rpc[k] = "idle"
  /\ rpc' = [rpc EXCEPT ![k] = IF f.kind = "single" THEN "wait" ELSE InDelegate(f)]
  /\ priorFail' = [priorFail EXCEPT ![k] =
               \E j \in Reqs : rpc[j] = "done" /\ rres[j].err # "nil"]
  /\ UNCHANGED <<newVars, f, mu, rres, cfgLog, closeCalls, crashed, dmnVars>>

\* Single: the gate is taken and the delegate's GetBaseVm is entered
SingleAcquire(k) ==
  /\ dpc # "exited" /\ ~crashed
  /\ rpc[k] = "wait"
  /\ mu = 0
  /\ mu' = k
  /\ rpc' = [rpc EXCEPT ![k] = InDelegate(f)]
  /\ UNCHANGED <<newVars, f, rres, priorFail, cfgLog, closeCalls, crashed, dmnVars>>

\* the delegate's GetBaseVm returns; a Single wrapper releases the gate
GetBaseVmEnd(k) ==
  /\ dpc # "exited" /\ ~crashed
  /\ rpc[k] \in {"clone", "boot"}
  /\ \E ok \in BOOLEAN :
       LET r == FactoryGetBaseVm(f, k, ok)
       IN /\ rres' = [rres EXCEPT ![k] =
                 [vm |-> r.vm, err |-> r.err, clones |-> r.clones, boots |-> r.boots]]
          /\ f' = WithDelegate(f, r.t)
  /\ rpc' = [rpc EXCEPT ![k] = "done"]
  /\ mu' = IF mu = k THEN 0 ELSE mu
  /\ UNCHANGED <<newVars, priorFail, cfgLog, closeCalls, crashed, dmnVars>>

\* a caller calls Config()
ConfigCall ==
  /\ f # NilFactory /\ dpc # "exited" /\ ~crashed
  /\ cfgLog' = cfgLog \cup
       {[val |-> FactoryConfig(f), after |-> Cardinality(HandedOut)]}
  /\ UNCHANGED <<newVars, f, mu, rpc, rres, priorFail, closeCalls, crashed, dmnVars>>

\* (*TemplateVmConfig).Destroy(): the backing state at path is released
Destroy(path) ==
  /\ templates' = templates \ {path}
  /\ entries' = entries \ {path}

\* a CloseFactory that panics when the template is already destroyed
CloseFactoryPanicsTwice ==
  /\ f # NilFactory /\ dpc # "exited" /\ ~crashed
  /\ closeCalls < MaxClose
  /\ closeCalls' = closeCalls + 1
  /\ crashed' = (closeCalls >= 1)
  /\ IF Delegate(f).kind = "template"
       THEN Destroy(Delegate(f).s.StatePath)
       ELSE UNCHANGED <<templates, entries>>
  /\ UNCHANGED <<rootFault, pc, args, vmName, s, err, handed, overtaken, ret,
                 f, mu, rpc, rres, priorFail, cfgLog, dmnVars>>

\* a CloseFactory that also tears down the VMs cloned from the template
CloseFactoryKillsClones ==
  /\ f # NilFactory /\ dpc # "exited" /\ ~crashed
  /\ closeCalls < MaxClose
  /\ closeCalls' = closeCalls + 1
  /\ IF Delegate(f).kind = "template"
       THEN Destroy(Delegate(f).s.StatePath)
       ELSE UNCHANGED <<templates, entries>>
  /\ rres' = [k \in Reqs |->
       IF rres[k].vm.how = "clone" THEN [rres[k] EXCEPT !.vm = NoVm] ELSE rres[k]]
  /\ UNCHANGED <<rootFault, pc, args, vmName, s, err, handed, overtaken, ret,
                 f, mu, rpc, priorFail, cfgLog, crashed, dmnVars>>

\* (t *templateFactory) CloseFactory(), and the pass-through of Single and Direct
CloseFactory ==
  /\ f # NilFactory /\ dpc # "exited" /\ ~crashed
  /\ closeCalls < MaxClose
  /\ closeCalls' = closeCalls + 1
  /\ IF Delegate(f).kind = "template"
       THEN Destroy(Delegate(f).s.StatePath)
       ELSE UNCHANGED <<templates, entries>>
  /\ UNCHANGED <<rootFault, pc, args, vmName, s, err, handed, overtaken, ret,
                 f, mu, rpc, rres, priorFail, cfgLog, crashed, dmnVars>>

\* the client builds its Factory once
ClientNew == f = NilFactory /\ CallNew(1)

\* one caller of New or NewFromExisted, then the Factory's methods
NextFactory ==
  \/ ClientNew
  \/ LoopIter(1)
  \/ CreateAndReturn(1)
  \/ AdoptNew(1)
  \/ AdoptExisted
  \/ \E k \in Reqs : GetBaseVmBegin(k)
  \/ \E k \in Reqs : GetBaseVmEnd(k)
  \/ ConfigCall
  \/ CloseFactory

SpecFactory == InitNew /\ [][NextFactory]_vars

\* ------------------------------------------- containerd: the daemon
\* values the global flags can carry
FlagSet ==
  [driver : {"", "kvm", "xen"}, kernel : {"", "vmlinuz", "bzImage"},
   initrd : {"", "initrd.img", "rootfs.img"}, template : {"", "/run/tpl"}]

\* the Template VM Config persisted under --template
PersistedConfig ==
  [StatePath |-> 1, Driver |-> "kvm", Cpu |-> 1, Memory |-> 128,
   Kernel |-> "vmlinuz", Initrd |-> "initrd.img"]

\* config.json: absent, not JSON, the JSON value null, or a descriptor
DescriptorFiles ==
  { [kind |-> "missing"], [kind |-> "garbage"], [kind |-> "null"],
    [kind |-> "config", cfg |-> PersistedConfig] }

Signals == {"SIGCHLD", "SIGTERM", "SIGINT", "SIGQUIT"}

\* a test that forgets the initrd
TemplateMismatchNoInitrd(d, k, i, tc) ==
  \/ (d # "" /\ d # tc.Driver)
  \/ (k # "" /\ k # tc.Kernel)

\* the test that disables the template
TemplateMismatch(d, k, i, tc) ==
  \/ (d # "" /\ d # tc.Driver)
  \/ (k # "" /\ k # tc.Kernel)
  \/ (i # "" /\ i # tc.Initrd)

\* an attach that leaves the Single wrapper out
AttachFactoryUnwrapped(tc) == NewFromExisted(tc)

\* singlefactory.New(templatefactory.NewFromExisted(tconfig))
AttachFactory(tc) == SingleNew(NewFromExisted(tc))

\* factory.NewFromConfigs(kernel, initrd, nil)
NewFromConfigs(k, i) == DirectNew(1, 128, k, i)

\* the Factory chosen for the daemon
SelectFactory(tpl, tc, k, i) ==
  IF tpl # "" THEN AttachFactory(tc) ELSE NewFromConfigs(k, i)

\* os.Exit(code), or the end of a panicking process
Exit(code) ==
  /\ dpc' = "exited"
  /\ exitCode' = code

\* an attach that keeps the --driver argument as it was given
AttachDriverKeepsFlag(d, tc) == d

\* else if driver == "" { driver = tconfig.Driver }
AttachDriver(d, tc) == IF d = "" THEN tc.Driver ELSE d

\* flags read, template descriptor opened, parsed and compared
LoadTemplate ==
  /\ dpc = "start"
  /\ \E file \in DescriptorFiles :
     LET fl == flags IN
       /\ IF fl.template # ""
            THEN /\ descFile' = file
                 /\ CASE file.kind \in {"missing", "garbage"} ->
                           /\ Exit(255)
                           /\ driver' = fl.driver /\ template' = fl.template
                           /\ UNCHANGED <<tconfig, crashed>>
                      [] file.kind = "null" ->
                           /\ Exit(2)
                           /\ crashed' = TRUE
                           /\ driver' = fl.driver /\ template' = fl.template
                           /\ UNCHANGED tconfig
                      [] OTHER ->
                           /\ tconfig' = file.cfg
                           /\ IF TemplateMismatch(fl.driver, fl.kernel, fl.initrd, file.cfg)
                                THEN template' = "" /\ driver' = fl.driver
                                ELSE /\ template' = fl.template
                                     /\ driver' = AttachDriver(fl.driver, file.cfg)
                           /\ dpc' = "probe"
                           /\ UNCHANGED <<exitCode, crashed>>
            ELSE /\ UNCHANGED <<descFile, tconfig, crashed>>
                 /\ driver' = fl.driver /\ template' = fl.template
                 /\ IF fl.kernel = "" \/ fl.initrd = ""
                      THEN Exit(1)
                      ELSE dpc' = "probe" /\ UNCHANGED exitCode
       /\ kernel' = fl.kernel
       /\ initrd' = fl.initrd
  /\ UNCHANGED <<newVars, f, mu, rpc, rres, priorFail, cfgLog, closeCalls,
                 flags, soloVars, HDriver, sv, server, sigs>>

\* a probe whose error is logged and not acted on
ProbeIgnoresError ==
  /\ dpc = "probe"
  /\ \E ok \in BOOLEAN :
       /\ HDriver' = IF ok THEN (IF driver = "" THEN "kvm" ELSE driver) ELSE HDriver
       /\ dpc' = "factory"
       /\ UNCHANGED exitCode
  /\ UNCHANGED <<newVars, facVars, flags, soloVars, descFile, driver, kernel, initrd,
                 template, tconfig, sv, server, sigs>>

\* driverloader.Probe(driver)
Probe ==
  /\ dpc = "probe"
  /\ \E ok \in BOOLEAN :
       IF ok THEN /\ HDriver' = IF driver = "" THEN "kvm" ELSE driver
                  /\ dpc' = "factory"
                  /\ UNCHANGED exitCode
             ELSE Exit(1) /\ UNCHANGED HDriver
  /\ UNCHANGED <<newVars, facVars, flags, soloVars, descFile, driver, kernel, initrd,
                 template, tconfig, sv, server, sigs>>

\* var f factory.Factory and its assignment
BuildFactory ==
  /\ dpc = "factory"
  /\ f' = SelectFactory(template, tconfig, kernel, initrd)
  /\ dpc' = "supervisor"
  /\ UNCHANGED <<newVars, mu, rpc, rres, priorFail, cfgLog, closeCalls, crashed,
                 flags, soloVars, descFile, driver, kernel, initrd, template, tconfig,
                 HDriver, sv, server, sigs, exitCode>>

\* supervisor.New(stateDir, containerdDir, f)
NewSupervisor ==
  /\ dpc = "supervisor"
  /\ \E ok \in BOOLEAN :
       IF ok THEN sv' = TRUE /\ dpc' = "daemon" /\ UNCHANGED exitCode
             ELSE Exit(1) /\ UNCHANGED sv
  /\ UNCHANGED <<newVars, facVars, flags, soloVars, descFile, driver, kernel, initrd,
                 template, tconfig, HDriver, server, sigs>>

\* daemon(): signal.Notify and startServer
StartServer ==
  /\ dpc = "daemon"
  /\ \E ok \in BOOLEAN :
       IF ok THEN server' = "serving" /\ dpc' = "signals" /\ UNCHANGED exitCode
             ELSE Exit(1) /\ UNCHANGED server
  /\ UNCHANGED <<newVars, facVars, flags, soloVars, descFile, driver, kernel, initrd,
                 template, tconfig, HDriver, sv, sigs>>

\* the kernel delivers a signal the daemon is notified of
SendSignal ==
  /\ dpc \in {"signals", "grace", "cleanup"}
  /\ Len(sigs) < MaxSignals
  /\ \E sig \in Signals : sigs' = Append(sigs, sig)
  /\ UNCHANGED <<newVars, facVars, dpc, flags, soloVars, descFile, driver, kernel, initrd,
                 template, tconfig, HDriver, sv, server, exitCode>>

\* a loop in which SIGCHLD, like every other signal, starts the shutdown
ReceiveSignalChldStops ==
  /\ dpc = "signals"
  /\ sigs # <<>>
  /\ sigs' = Tail(sigs)
  /\ dpc' = "grace"
  /\ UNCHANGED <<newVars, facVars, flags, soloVars, descFile, driver, kernel, initrd,
                 template, tconfig, HDriver, sv, server, exitCode>>

\* for ss := range s: SIGCHLD reaps, any other signal starts the shutdown
ReceiveSignal ==
  /\ dpc = "signals"
  /\ sigs # <<>>
  /\ sigs' = Tail(sigs)
  /\ dpc' = IF Head(sigs) = "SIGCHLD" THEN "signals" ELSE "grace"
  /\ UNCHANGED <<newVars, facVars, flags, soloVars, descFile, driver, kernel, initrd,
                 template, tconfig, HDriver, sv, server, exitCode>>

\* after time.Sleep: server.Stop() and return nil
StopServer ==
  /\ dpc = "grace"
  /\ server' = "stopped"
  /\ dpc' = "cleanup"
  /\ UNCHANGED <<newVars, facVars, flags, soloVars, descFile, driver, kernel, initrd,
                 template, tconfig, HDriver, sv, sigs, exitCode>>

\* os.RemoveAll(containerdDir)
RemoveAll == [exists |-> FALSE, links |-> {}]

\* Action returns after daemon() and the process ends
ActionReturn ==
  /\ dpc = "cleanup"
  /\ cdir' = IF solo THEN RemoveAll ELSE cdir
  /\ Exit(0)
  /\ UNCHANGED <<newVars, facVars, flags, descFile, driver, kernel, initrd,
                 template, tconfig, HDriver, sv, server, sigs,
                 solo, cstate, events, containerCount, kills>>

\* a container-start request reaches the Supervisor, which calls f.GetBaseVm()
Serve(k) == server = "serving" /\ GetBaseVmBegin(k)

\* the persisted template is still on the backing store, or it is gone
InitStore ==
  /\ entries \in {{}, {PersistedConfig.StatePath}}
  /\ rootFault = FALSE
  /\ templates = entries

InitDaemon ==
  /\ InitStore /\ InitCalls /\ InitFacPart /\ InitDmnPart
  /\ flags \in FlagSet
  /\ solo = FALSE
  /\ dpc = "start"

NextDaemon ==
  \/ LoadTemplate
  \/ Probe
  \/ BuildFactory
  \/ NewSupervisor
  \/ StartServer
  \/ SendSignal
  \/ ReceiveSignal
  \/ StopServer
  \/ ActionReturn
  \/ \E k \in Reqs : Serve(k)
  \/ \E k \in Reqs : SingleAcquire(k)
  \/ \E k \in Reqs : GetBaseVmEnd(k)

SpecDaemon == InitDaemon /\ [][NextDaemon]_vars

\* goroutines inside GetBaseVm keep running, and sync.Mutex hands the gate to
\* every waiter in turn
FairDaemon ==
  \A k \in Reqs : WF_vars(GetBaseVmEnd(k)) /\ SF_vars(SingleAcquire(k))

LiveSpecDaemon == SpecDaemon /\ FairDaemon

\* command lines that name a template and agree with its descriptor
AttachFlags ==
  { fl \in FlagSet :
      /\ fl.template # ""
      /\ ~TemplateMismatch(fl.driver, fl.kernel, fl.initrd, PersistedConfig) }

InitAttach ==
  /\ InitStore /\ InitCalls /\ InitFacPart /\ InitDmnPart
  /\ flags \in AttachFlags
  /\ solo = FALSE
  /\ dpc = "start"

\* the daemon started on a template it can attach to
SpecAttach == InitAttach /\ [][NextDaemon]_vars

LiveSpecAttach == SpecAttach /\ FairDaemon

\* either program: a client of the template package, or the daemon
InitAll == InitNew \/ InitDaemon

NextAll ==
  \/ dpc = "off" /\ NextFactory
  \/ dpc # "off" /\ NextDaemon

SpecAll == InitAll /\ [][NextAll]_vars

\* ------------------------------------------------ solo-namespaced mode
\* the events the Supervisor publishes for container k, in the order of the
\* container's life: one start, exits of processes run in it, one exit of init
StartEvent(k) == [Type |-> "start-container", PID |-> "init", ID |-> k]
ExitEvent(k, pid) == [Type |-> "exit", PID |-> pid, ID |-> k]
Pids == {"init", "exec"}

\* the container of request k has started on the VM GetBaseVm handed out
EmitStart(k) ==
  /\ solo /\ server = "serving"
  /\ rpc[k] = "done" /\ rres[k].err = "nil"
  /\ cstate[k] = "none"
  /\ Len(events) < MaxQueue
  /\ events' = Append(events, StartEvent(k))
  /\ cstate' = [cstate EXCEPT ![k] = "running"]
  /\ UNCHANGED <<newVars, facVars, dpc, flags, descFile, driver, kernel, initrd,
                 template, tconfig, HDriver, sv, server, sigs, exitCode,
                 solo, containerCount, kills, cdir>>

\* a process of container k has exited; the container ends with its init
EmitExit(k, pid) ==
  /\ solo /\ dpc # "exited"
  /\ cstate[k] = "running"
  /\ Len(events) < MaxQueue
  /\ events' = Append(events, ExitEvent(k, pid))
  /\ cstate' = [cstate EXCEPT ![k] = IF pid = "init" THEN "exited" ELSE "running"]
  /\ UNCHANGED <<newVars, facVars, dpc, flags, descFile, driver, kernel, initrd,
                 template, tconfig, HDriver, sv, server, sigs, exitCode,
                 solo, containerCount, kills, cdir>>

\* a loop body that counts down on the exit of any process
ShareStepAnyExit(count, ev) ==
  IF ev.Type = "start-container"
    THEN [count |-> count + 1, link |-> TRUE, kill |-> FALSE]
    ELSE IF ev.Type = "exit"
      THEN [count |-> count - 1, link |-> FALSE, kill |-> (count - 1 = 0)]
      ELSE [count |-> count, link |-> FALSE, kill |-> FALSE]

\* the body of namespaceShare's loop for one event: the new containerCount,
\* whether a namespace link is made, whether SIGQUIT is sent
ShareStep(count, ev) ==
  IF ev.Type = "start-container"
    THEN [count |-> count + 1, link |-> TRUE, kill |-> FALSE]
    ELSE IF ev.Type = "exit" /\ ev.PID = "init"
      THEN [count |-> count - 1, link |-> FALSE, kill |-> (count - 1 = 0)]
      ELSE [count |-> count, link |-> FALSE, kill |-> FALSE]

\* go namespaceShare(...): one event is taken from the channel and handled
NamespaceShare ==
  /\ solo /\ sv /\ dpc # "exited"
  /\ events # <<>>
  /\ events' = Tail(events)
  /\ LET r == ShareStep(containerCount, Head(events))
     IN /\ containerCount' = r.count
        /\ cdir' = IF r.link /\ cdir.exists
                     THEN [cdir EXCEPT !.links = @ \cup {Head(events).ID}]
                     ELSE cdir
        /\ kills' = IF r.kill THEN kills + 1 ELSE kills
        /\ sigs' = IF r.kill THEN Append(sigs, "SIGQUIT") ELSE sigs
  /\ UNCHANGED <<newVars, facVars, dpc, flags, descFile, driver, kernel, initrd,
                 template, tconfig, HDriver, sv, server, exitCode, solo, cstate>>

\* command lines of a daemon in solo-namespaced mode, with a fresh Factory
SoloFlags ==
  { fl \in FlagSet : /\ fl.driver = "" /\ fl.template = ""
                     /\ fl.kernel = "vmlinuz" /\ fl.initrd \in {"", "initrd.img"} }

\* no template is persisted
EmptyStore ==
  /\ entries = {}
  /\ rootFault = FALSE
  /\ templates = {}

InitSolo ==
  /\ EmptyStore /\ InitCalls /\ InitFacPart /\ InitDmnPart
  /\ flags \in SoloFlags
  /\ solo = TRUE
  /\ dpc = "start"

\* the steps of a solo-namespaced daemon whose Factory is fresh (no Single gate)
NextSolo ==
  \/ LoadTemplate
  \/ Probe
  \/ BuildFactory
  \/ NewSupervisor
  \/ StartServer
  \/ SendSignal
  \/ ReceiveSignal
  \/ StopServer
  \/ ActionReturn
  \/ \E k \in Reqs : Serve(k)
  \/ \E k \in Reqs : GetBaseVmEnd(k)
  \/ \E k \in Reqs : EmitStart(k)
  \/ \E k \in Reqs, pid \in Pids : EmitExit(k, pid)
  \/ NamespaceShare

SpecSolo == InitSolo /\ [][NextSolo]_vars

\* daemon() is sequential code: the range loop takes a signal that is in the
\* channel, the sleep ends and server.Stop() returns, Action returns
FairSignals ==
  WF_vars(ReceiveSignal) /\ WF_vars(StopServer) /\ WF_vars(ActionReturn)

LiveSpecSignals == SpecAttach /\ FairSignals

LiveSpecSolo == SpecSolo /\ FairSignals

\* ------------------------------------------------------------ properties

\* C1: when CreateTemplateVM fails, New still returns a non-nil Factory, the
\* Direct strategy built from the cpu, mem, kernel and initrd passed to New;
\* every GetBaseVm on it runs one cold boot and no clone, and a VM it yields
\* is booted from that kernel and initrd. New has no error result.
C1_FallbackToDirect ==
  \A p \in Procs :
    (pc[p] = "done" /\ err[p] # "nil") =>
      /\ ret[p] # NilFactory
      /\ ret[p] = [kind |-> "direct", cpu |-> args[p].cpu, mem |-> args[p].mem,
                   kernel |-> args[p].kernel, initrd |-> args[p].initrd]
      /\ f = ret[p] =>
           \A k \in Reqs : rpc[k] = "done" =>
             /\ rres[k].boots = 1 /\ rres[k].clones = 0
             /\ rres[k].err = "nil" =>
                  /\ rres[k].vm.how = "boot"
                  /\ rres[k].vm.kernel = args[p].kernel
                  /\ rres[k].vm.initrd = args[p].initrd

C1_Witness ==
  \E p \in Procs, k \in Reqs :
    /\ pc[p] = "done" /\ err[p] # "nil" /\ f = ret[p]
    /\ rpc[k] = "done" /\ rres[k].vm.how = "boot"

\* C2: the name the loop of New exits with does not exist at the moment of its
\* existence check, it is not changed afterwards, and it is the path handed to
\* CreateTemplateVM.
C2_ExitNameNotExisting ==
  [][\A p \in Procs :
       /\ (pc[p] = "loop" /\ pc'[p] = "create") =>
            (vmName'[p] \notin entries /\ ~rootFault)
       /\ pc[p] = "create" => vmName'[p] = vmName[p]
       /\ (pc[p] = "create" /\ pc'[p] = "done") => handed'[p] = vmName[p]]_vars

C2_Witness ==
  /\ \A p \in Procs : pc[p] = "done" /\ err[p] = "nil" /\ handed[p] = vmName[p]
  /\ Cardinality(entries) = MaxPre + NumCalls

\* C3: the name-picking loop of New always terminates, whatever os.Stat answers.
C3_LoopTerminates ==
  \A p \in Procs : (pc[p] = "loop") ~> (pc[p] \in {"create", "done"})

\* the loop does terminate when os.Stat can tell whether the path exists
LoopExitsWhenStatAnswers ==
  \A p \in Procs : (pc[p] = "loop" /\ ~rootFault) ~> (pc[p] \in {"create", "done"})

\* C4 as stated: whenever a New call invokes CreateTemplateVM on a path, no
\* template has already been created at that path.
C4_NeverSameRoot ==
  [][\A p \in Procs :
       (pc[p] = "create" /\ pc'[p] = "done") => vmName[p] \notin templates]_vars

\* C4 as amended: a New call invokes CreateTemplateVM on a path that holds a
\* template only when that template was created by another call after this
\* call's existence check.
C4_SameRootOnlyWhenOvertaken ==
  \A p \in Procs :
    (pc[p] = "create" /\ vmName[p] \in templates) => overtaken[p]

C4_Witness ==
  \E p \in Procs, q \in Procs :
    /\ p # q /\ pc[p] = "create" /\ pc[q] = "done" /\ err[q] = "nil"
    /\ vmName[p] = vmName[q] /\ vmName[p] \in templates /\ overtaken[p]

\* the daemon has attached to an existing template
Attached == f # NilFactory /\ template # ""

InFlightClones == { k \in Reqs : rpc[k] = "clone" }

\* C5: once the daemon has attached to an existing template, at most one clone
\* is in flight at any time, every completed GetBaseVm call holds its own
\* cloned VM or an error, and every issued call completes while the daemon
\* process lives.
C5_SingleSerializesClones ==
  /\ [](Attached => Cardinality(InFlightClones) <= 1)
  /\ [](Attached =>
          \A k \in Reqs : rpc[k] = "done" =>
            \/ rres[k].err = "nil" /\ rres[k].vm.how = "clone" /\ rres[k].vm.id = k
            \/ rres[k].err # "nil" /\ rres[k].vm = NoVm)
  /\ <>[](\/ dpc = "exited"
          \/ Attached => \A k \in Reqs : rpc[k] \in {"idle", "done"})

C5_Witness ==
  /\ Attached
  /\ \E j \in Reqs, k \in Reqs : rpc[j] = "clone" /\ rpc[k] = "wait"

\* the descriptor was supplied and agrees with every flag that is set
DescriptorMatches ==
  /\ flags.template # ""
  /\ descFile.kind = "config"
  /\ flags.driver \in {"", descFile.cfg.Driver}
  /\ flags.kernel \in {"", descFile.cfg.Kernel}
  /\ flags.initrd \in {"", descFile.cfg.Initrd}

\* C6: the daemon's Factory is Single(NewFromExisted(descriptor)) exactly when
\* a descriptor was supplied and its driver, kernel and initrd match the flags
\* that are set; otherwise it is a fresh Factory of the requested kernel and
\* initrd.
C6_FactorySelection ==
  f # NilFactory =>
    IF DescriptorMatches
      THEN f = [kind |-> "single",
                inner |-> [kind |-> "template", s |-> descFile.cfg]]
      ELSE /\ f.kind = "direct"
           /\ f.kernel = flags.kernel /\ f.initrd = flags.initrd

C6_Witness ==
  /\ f # NilFactory /\ f.kind = "single"
  /\ flags.driver = "" /\ flags.kernel = "vmlinuz" /\ flags.initrd = ""

\* C7: a daemon that ends after its shutdown sequence has invoked CloseFactory
\* on its Factory exactly once.
C7_CloseFactoryOnShutdown ==
  (dpc = "exited" /\ server = "stopped") => closeCalls = 1

\* C8: every Config() call on a Factory from New or NewFromExisted returns the
\* same BootConfig, however many GetBaseVm calls succeeded in between.
C8_ConfigStable ==
  \A a \in cfgLog, b \in cfgLog : a.val = b.val

C8_Witness ==
  /\ f.kind = "template"
  /\ \E a \in cfgLog, b \in cfgLog : a.after = 0 /\ b.after = NumReqs

\* C9: a CloseFactory call on a template Factory that follows an earlier one
\* does not panic and changes nothing: the template stays destroyed and the
\* Factory is as the first call left it.
C9_CloseIdempotent ==
  [][(Delegate(f).kind = "template" /\ closeCalls >= 1
        /\ closeCalls' = closeCalls + 1) =>
       /\ ~crashed'
       /\ templates' = templates /\ entries' = entries
       /\ f' = f
       /\ Delegate(f).s.StatePath \notin templates]_vars

C9_Witness ==
  /\ f.kind = "template" /\ closeCalls = 2 /\ ~crashed
  /\ f.s.StatePath \notin templates

\* C10: GetBaseVm of a template Factory runs exactly one clone and no cold
\* boot; when the clone fails the caller gets the error and no VM; a call
\* issued after a failed one again runs a clone.
C10_CloneFailureSurfaces ==
  Delegate(f).kind = "template" =>
    \A k \in Reqs :
      /\ rpc[k] \in {"idle", "wait", "clone", "done"}
      /\ rpc[k] = "done" =>
           /\ rres[k].clones = 1 /\ rres[k].boots = 0
           /\ rres[k].err # "nil" => rres[k].vm = NoVm
           /\ rres[k].err = "nil" => rres[k].vm.how = "clone"

C10_Witness ==
  /\ f.kind = "template"
  /\ \E j \in Reqs, k \in Reqs :
       /\ rpc[j] = "done" /\ rres[j].err # "nil" /\ rres[j].vm = NoVm
       /\ priorFail[k] /\ rpc[k] = "done" /\ rres[k].clones = 1
       /\ rres[k].err = "nil"

\* C11: the Factory is assigned once and never replaced or changed, in the
\* daemon and in a client of New; a Factory from New whose template was
\* created serves every GetBaseVm by one clone and no boot, one whose template
\* creation failed by one cold boot and no clone.
C11_StrategyDecidedOnce ==
  /\ [][f # NilFactory => f' = f]_vars
  /\ [](\A p \in Procs : (pc[p] = "done" /\ f = ret[p]) =>
          \A k \in Reqs :
            /\ rpc[k] \in {"clone", "boot"} =>
                 rpc[k] = (IF err[p] = "nil" THEN "clone" ELSE "boot")
            /\ rpc[k] = "done" =>
                 /\ rres[k].clones = (IF err[p] = "nil" THEN 1 ELSE 0)
                 /\ rres[k].boots = (IF err[p] = "nil" THEN 0 ELSE 1)
                 /\ rres[k].err = "nil" =>
                      rres[k].vm.how = (IF err[p] = "nil" THEN "clone" ELSE "boot"))

C11_Witness ==
  \E p \in Procs, j \in Reqs, k \in Reqs :
    /\ pc[p] = "done" /\ err[p] = "nil" /\ f = ret[p]
    /\ rpc[j] = "done" /\ rres[j].err # "nil"
    /\ priorFail[k] /\ rpc[k] = "done" /\ rres[k].vm.how = "clone"


\* C12: when New succeeded on (cpu, mem, kernel, initrd), Config() of the
\* Factory it returned reports exactly that cpu, mem, kernel and initrd, at the
\* return of New and at every later call of Config().
ConfigReports(c, a) ==
  /\ c.CPU = a.cpu /\ c.Memory = a.mem
  /\ c.Kernel = a.kernel /\ c.Initrd = a.initrd

C12_ConfigReportsArgs ==
  \A p \in Procs : (pc[p] = "done" /\ err[p] = "nil") =>
    /\ ret[p].kind = "template"
    /\ ConfigReports(FactoryConfig(ret[p]), args[p])
    /\ f = ret[p] => \A c \in cfgLog : ConfigReports(c.val, args[p])

C12_Witness ==
  \E p \in Procs, c \in cfgLog :
    /\ pc[p] = "done" /\ err[p] = "nil" /\ f = ret[p]
    /\ args[p].cpu = 2 /\ c.val.CPU = 2 /\ c.val.Kernel = "bzImage"
    /\ c.after > 0


\* C13: NewFromExisted creates no template and neither fails nor rejects its
\* argument: for every Template VM Config, a stale one included, the step that
\* attaches leaves the backing store alone, ends no process and yields a
\* template Factory holding exactly that config; a config whose template is
\* gone shows only when GetBaseVm returns, as an error and no VM.
AttachStep ==
  /\ f = NilFactory /\ f' # NilFactory
  /\ IF dpc = "off" THEN \A p \in Procs : pc[p] = "idle" ELSE template # ""

C13_NewFromExistedNeverFails ==
  /\ [][AttachStep =>
          /\ Delegate(f').kind = "template"
          /\ Delegate(f').s \in ExistedConfigs \cup {tconfig}
          /\ templates' = templates /\ entries' = entries
          /\ crashed' = FALSE /\ dpc' # "exited"]_vars
  /\ [][\A k \in Reqs :
          (/\ rpc[k] = "clone" /\ rpc'[k] = "done"
           /\ Delegate(f).s.StatePath \notin templates) =>
             /\ rres'[k].err # "nil" /\ rres'[k].vm = NoVm
             /\ crashed' = FALSE /\ f' = f]_vars

C13_Witness ==
  \E k \in Reqs :
    /\ \A p \in Procs : pc[p] = "idle"
    /\ Delegate(f).kind = "template"
    /\ Delegate(f).s.StatePath \notin templates /\ closeCalls = 0
    /\ rpc[k] = "done" /\ rres[k].err # "nil"


TermPending == \E i \in 1..Len(sigs) : sigs[i] # "SIGCHLD"

C15_SignalLoop ==
  /\ [][Len(sigs') < Len(sigs) =>
          /\ dpc = "signals" /\ sigs' = Tail(sigs)
          /\ server' = server /\ server = "serving"
          /\ dpc' = (IF Head(sigs) = "SIGCHLD" THEN "signals" ELSE "grace")]_vars
  /\ [][server # server' /\ server # "none" =>
          /\ dpc = "grace" /\ server = "serving" /\ server' = "stopped"
          /\ dpc' = "cleanup"]_vars
  /\ [][dpc = "cleanup" => dpc' \in {"cleanup", "exited"}]_vars
  /\ [][dpc = "cleanup" /\ dpc' = "exited" => exitCode' = 0]_vars
  /\ [][dpc = "exited" => dpc' = "exited" /\ exitCode' = exitCode]_vars
  /\ (dpc = "signals" /\ TermPending) ~>
        (dpc = "exited" /\ server = "stopped" /\ exitCode = 0)

C15_Witness ==
  /\ dpc = "exited" /\ exitCode = 0 /\ server = "stopped"
  /\ sigs # <<>>


\* C16: whenever the daemon has built a fresh Factory with
\* NewFromConfigs(kernel, initrd, nil), the kernel and the initrd it was built
\* from are both non-empty, also when a template was named and then disabled.
C16_FreshFactoryHasKernelInitrd ==
  (dpc # "off" /\ f.kind = "direct") => (f.kernel # "" /\ f.initrd # "")


\* C17: whenever the daemon attaches to a persisted template (template is
\* still non-empty once the descriptor has been read and compared), the driver
\* handed to the probe is the descriptor's driver, and so is the driver the
\* attached Factory runs under.
C17_AttachProbesDescriptorDriver ==
  (template # "" /\ descFile.kind = "config" /\ dpc # "start") =>
    /\ driver = tconfig.Driver
    /\ HDriver # "" => HDriver = tconfig.Driver
    /\ f # NilFactory => (Attached /\ Delegate(f).s.Driver = HDriver)

C17_Witness ==
  /\ Attached /\ template # "" /\ flags.driver = ""
  /\ HDriver = "kvm" /\ tconfig.Driver = "kvm"


\* C18: the gRPC server is started only after every startup step succeeded, in
\* order: the descriptor opened and parsed when a template is named, kernel and
\* initrd present when none is named, the probe, the Factory, the Supervisor.
\* A step that fails ends the process with a non-zero status, and no later
\* component is constructed and the server is not started.
LoadOk ==
  IF flags.template # "" THEN descFile.kind = "config"
                         ELSE flags.kernel # "" /\ flags.initrd # ""

C18_StartupOrder ==
  /\ [](dpc # "off" =>
          /\ server # "none" => sv
          /\ sv => f # NilFactory
          /\ f # NilFactory => HDriver # ""
          /\ HDriver # "" => LoadOk
          /\ dpc \notin {"start", "exited"} => LoadOk
          /\ (dpc = "exited" /\ server = "none") => exitCode # 0)
  /\ [][(dpc' = "exited" /\ dpc \notin {"cleanup", "exited"}) =>
          /\ exitCode' # 0
          /\ f' = f /\ sv' = sv /\ server' = server /\ HDriver' = HDriver]_vars
  /\ [][dpc = "exited" =>
          (dpc' = "exited" /\ f' = f /\ sv' = sv /\ server' = server)]_vars

C18_Witness ==
  /\ server = "serving" /\ sv /\ f # NilFactory /\ HDriver # ""
  /\ flags.template # "" /\ descFile.kind = "config"


\* C19: in solo-namespaced mode namespaceShare sends SIGQUIT to the process
\* group exactly when the event it handles is the exit of an init process that
\* leaves no container started and not exited; it never sends it while a
\* started container's init has not exited; once it is sent the signal loop
\* stops the server, the daemon returns and containerdDir is removed.
Waiting(ev) == \E i \in 1..Len(events) : events[i] = ev

\* the containers whose start namespaceShare has handled and whose init exit
\* it has not
Counted ==
  { k \in Reqs :
      /\ cstate[k] # "none" /\ ~Waiting(StartEvent(k))
      /\ cstate[k] = "running" \/ Waiting(ExitEvent(k, "init")) }

Handles(ev) == events # <<>> /\ Head(events) = ev /\ events' = Tail(events)

====
